---- MODULE Spec2Model ----
(***************************************************************************)
(* Website-Scanner (src/app.py): the scan -> sanitize -> score pipeline.   *)
(*                                                                         *)
(* Python values are modelled as tagged records [ty, n, d, s]:             *)
(*   ty  the Python type name ("float", "int", "bool", "str", "dict",      *)
(*       "list", "NoneType");                                              *)
(*   n/d the numeric value as the exact fraction n/d (d = 1 for int and    *)
(*       bool; for a dict or list n is the number of entries);             *)
(*   s   the characters of a str, as a sequence of one-character strings.  *)
(* A Python dict of sections is a function from the keys present to        *)
(* objects [isdict, m]; a key that is missing is simply not in the DOMAIN. *)
(***************************************************************************)
EXTENDS Integers, Sequences, FiniteSets, TLC

VARIABLES
    pc,        \* position of the running handler / function under test
    url,       \* the string handed to the entry point
    vurl,      \* outcome of index's validate_url(url): [ok, url]
    surl,      \* outcome of scan_website's validate_url: [ok, url]
    resp,      \* outcome of session.get / raise_for_status / response.content
    results,   \* the ScanRecord `results` / `scan_data` (sections only)
    issues,    \* results['issues']
    ret,       \* what scan_website returned: [status, message, data, issues]
    soup,      \* the page the inner try block met: [doc, failAt]
    fetches,   \* number of session.get calls made
    arg,       \* input of the pure function under test
    once,      \* result of its first application
    twice,     \* result of applying it to its own result
    scores,    \* outcome of auto_score_website: [raised, scores]
    page       \* what index rendered: "none", "results" or "error"

vars == <<pc, url, vurl, surl, resp, results, issues, ret, soup, fetches,
          arg, once, twice, scores, page>>

(***************************************************************************)
(* Bounds of the model.                                                    *)
(***************************************************************************)
MaxFaults == 1      \* places of a base record faulted together in an input
MaxCount  == 2      \* largest tag count found in a fetched document

(***************************************************************************)
(* Python values.                                                          *)
(***************************************************************************)
Chars(n) == [i \in 1..n |-> "x"]

PyFloat(num, den) == [ty |-> "float", n |-> num, d |-> den, s |-> <<>>]
PyInt(i)          == [ty |-> "int", n |-> i, d |-> 1, s |-> <<>>]
PyBool(b)         == [ty |-> "bool", n |-> IF b THEN 1 ELSE 0, d |-> 1, s |-> <<>>]
PyStr(str)        == [ty |-> "str", n |-> 0, d |-> 1, s |-> str]
PyDict(size)      == [ty |-> "dict", n |-> size, d |-> 1, s |-> <<>>]
PyList(size)      == [ty |-> "list", n |-> size, d |-> 1, s |-> <<>>]
PyNone            == [ty |-> "NoneType", n |-> 0, d |-> 1, s |-> <<>>]

\* bool(v): Python truthiness
Truthy(v) ==
    CASE v.ty \in {"float", "int", "bool"} -> v.n # 0
      [] v.ty = "str" -> Len(v.s) > 0
      [] v.ty \in {"dict", "list"} -> v.n > 0
      [] OTHER -> FALSE

\* isinstance(v, (int, float)); bool is a subclass of int
IsNumber(v) == v.ty \in {"float", "int", "bool"}

\* isinstance(v, type(dflt)), as ensure_defaults tests it
IsInstanceOfTypeOf(v, dflt) ==
    CASE dflt.ty = "int" -> v.ty \in {"int", "bool"}
      [] OTHER -> v.ty = dflt.ty

\* len(v) is defined for str, dict and list; TypeError otherwise
HasLen(v) == v.ty \in {"str", "dict", "list"}
PyLen(v)  == IF v.ty = "str" THEN Len(v.s) ELSE v.n

\* v < num/den and v > num/den for a number v (den > 0)
Lt(v, num, den) == v.n * den < num * v.d
Gt(v, num, den) == v.n * den > num * v.d

(***************************************************************************)
(* Python floats are IEEE 754 binary64.  A float is sign s in {-1, 0, 1}   *)
(* and, when s # 0, the value s * (hi * 2^27 + lo) * 2^e with the 53-bit    *)
(* significand hi * 2^27 + lo in [2^52, 2^53).  Quotients are rounded to    *)
(* nearest, ties to even.  Exponents stay far from the subnormal and        *)
(* overflow ranges for the integers used here.                              *)
(***************************************************************************)
Word == 134217728     \* 2^27

\* float(i) of an int i with |i| < 2^31: exact
FromInt(i) ==
    LET RECURSIVE Normal(_, _, _)
        Normal(hi, lo, e) ==
            IF hi >= Word \div 4 THEN [s |-> IF i < 0 THEN -1 ELSE 1,
                                       hi |-> hi, lo |-> lo, e |-> e]
            ELSE Normal(2 * hi + (2 * lo) \div Word, (2 * lo) % Word, e - 1)
        Magnitude(k) == Normal(k \div Word, k % Word, 0)
    IN  IF i = 0 THEN [s |-> 0, hi |-> 0, lo |-> 0, e |-> 0]
        ELSE Magnitude(IF i < 0 THEN 0 - i ELSE i)

\* x / y for floats, y # 0 (float.__truediv__): the exact quotient of the
\* significands, developed bit by bit, then rounded half to even
FloatDiv(x, y) ==
    LET Less(p, q) == p[1] < q[1] \/ (p[1] = q[1] /\ p[2] < q[2])
        Sub(p, q)  == IF p[2] >= q[2] THEN <<p[1] - q[1], p[2] - q[2]>>
                      ELSE <<p[1] - q[1] - 1, p[2] + Word - q[2]>>
        Dbl(p)     == <<2 * p[1] + (2 * p[2]) \div Word, (2 * p[2]) % Word>>
        Rounded(q, up, e) ==
            IF ~up THEN [s |-> x.s * y.s, hi |-> q[1], lo |-> q[2], e |-> e]
            ELSE IF q[2] + 1 < Word
                 THEN [s |-> x.s * y.s, hi |-> q[1], lo |-> q[2] + 1, e |-> e]
            ELSE IF q[1] + 1 < Word \div 2
                 THEN [s |-> x.s * y.s, hi |-> q[1] + 1, lo |-> 0, e |-> e]
            ELSE [s |-> x.s * y.s, hi |-> Word \div 4, lo |-> 0, e |-> e + 1]
        \* r is twice the remainder left after the 53 quotient bits of q
        Round(q, r, d, e) ==
            Rounded(q, ~Less(r, d) /\ (r # d \/ q[2] % 2 = 1), e)
        \* the first bit is 1, so q has its 53 bits once it reaches 2^52
        RECURSIVE Bits(_, _, _, _)
        Bits(q, r, d, e) ==
            IF q[1] >= Word \div 4 THEN Round(q, r, d, e)
            ELSE IF Less(r, d) THEN Bits(Dbl(q), Dbl(r), d, e)
            ELSE Bits(<<Dbl(q)[1], Dbl(q)[2] + 1>>, Dbl(Sub(r, d)), d, e)
        Quotient(a, d, e) ==
            IF Less(a, d) THEN Bits(<<0, 0>>, Dbl(a), d, e - 53)
            ELSE Bits(<<0, 0>>, a, d, e - 52)
    IN  IF x.s = 0 THEN x
        ELSE Quotient(<<x.hi, x.lo>>, <<y.hi, y.lo>>, x.e - y.e)

\* float(v) of a number v; the float num/den is the double nearest to it
ToFloat(v) == IF v.d = 1 THEN FromInt(v.n) ELSE FloatDiv(FromInt(v.n), FromInt(v.d))

\* x > y for floats
FloatGt(x, y) ==
    LET Above(a, b) ==
            \/ a.e > b.e
            \/ a.e = b.e /\ (a.hi > b.hi \/ (a.hi = b.hi /\ a.lo > b.lo))
    IN  IF x.s # y.s THEN x.s > y.s
        ELSE IF x.s = 1 THEN Above(x, y)
        ELSE IF x.s = -1 THEN Above(y, x)
        ELSE FALSE

(***************************************************************************)
(* Python dicts.                                                           *)
(***************************************************************************)
EmptyMap == [k \in {} |-> PyNone]
Dict(m)  == [isdict |-> TRUE, m |-> m]
NonDict  == [isdict |-> FALSE, m |-> EmptyMap]   \* a str, list, number or None

SetKey(m, k, v) == [x \in (DOMAIN m) \cup {k} |-> IF x = k THEN v ELSE m[x]]
DelKeys(m, ks)  == [x \in (DOMAIN m) \ ks |-> m[x]]
\* m.get(k, dflt)
Get(m, k, dflt) == IF k \in DOMAIN m THEN m[k] ELSE dflt
\* m.setdefault(k, dflt), as the dict it leaves behind
SetDefault(m, k, dflt) == IF k \in DOMAIN m THEN m ELSE SetKey(m, k, dflt)

SectionNames == {"basic", "meta", "resources", "performance", "security",
                 "accessibility"}

\* datetime.now().isoformat(): some timestamp string
Timestamp == PyStr(<<"t", "s">>)

initialize_results ==
    [sec \in SectionNames |->
        CASE sec = "basic" ->
               Dict([load_time |-> PyFloat(0, 1), scan_timestamp |-> Timestamp])
          [] sec = "meta" ->
               Dict([title |-> PyStr(<<>>), title_length |-> PyInt(0),
                     description |-> PyStr(<<>>), viewport |-> PyBool(FALSE),
                     has_favicon |-> PyBool(FALSE), canonical |-> PyStr(<<>>),
                     og_tags |-> PyDict(0)])
          [] sec = "resources" ->
               Dict([images |-> PyInt(0), stylesheets |-> PyInt(0),
                     scripts |-> PyInt(0)])
          [] sec = "performance" ->
               Dict([page_size_kb |-> PyFloat(0, 1), requests |-> PyInt(0),
                     dom_elements |-> PyInt(0), dom_depth |-> PyInt(0)])
          [] sec = "security" ->
               Dict([https |-> PyBool(FALSE), hsts |-> PyBool(FALSE),
                     content_security_policy |-> PyBool(FALSE),
                     x_frame_options |-> PyBool(FALSE)])
          [] OTHER ->
               Dict([alt_text_images |-> PyInt(0), lang_attribute |-> PyBool(FALSE),
                     aria_attributes |-> PyInt(0)])]

\* results[section][key] = val on a record whose section is a dict
Assign(data, section, key, val) ==
    [data EXCEPT ![section] = Dict(SetKey(data[section].m, key, val))]

(***************************************************************************)
(* ensure_defaults: the sanitizer.                                         *)
(***************************************************************************)
\* the `defaults` table, in iteration order (dicts keep insertion order)
EnsureDefaultsTable ==
    << <<"basic", "load_time", PyFloat(0, 1)>>,
       <<"performance", "page_size_kb", PyFloat(0, 1)>>,
       <<"performance", "requests", PyInt(0)>>,
       <<"performance", "dom_depth", PyInt(0)>>,
       <<"meta", "viewport", PyBool(FALSE)>>,
       <<"meta", "title", PyStr(<<>>)>>,
       <<"meta", "description", PyStr(<<>>)>>,
       <<"resources", "stylesheets", PyInt(0)>>,
       <<"security", "https", PyBool(FALSE)>>,
       <<"accessibility", "alt_text_images", PyInt(0)>>,
       <<"accessibility", "aria_attributes", PyInt(0)>>,
       <<"accessibility", "lang_attribute", PyBool(FALSE)>> >>

\* `if key not in sec or not isinstance(sec[key], type(val))`
NeedsFix(sec, key, val) ==
    \/ key \notin DOMAIN sec
    \/ ~IsInstanceOfTypeOf(sec[key], val)

\* One iteration of the inner loop on the i-th row of the table, preceded by
\* the idempotent scan_data.setdefault(section, {}).  A section that is not
\* a dict makes `key not in sec` or `sec.get(key)` raise.
\* ensure_defaults returning right after the first field it repairs
RECURSIVE EnsureFromStopsAfterFix(_, _)
EnsureFromStopsAfterFix(data, i) ==
    IF i > Len(EnsureDefaultsTable) THEN [raised |-> FALSE, data |-> data]
    ELSE LET row  == EnsureDefaultsTable[i]
             d1   == SetDefault(data, row[1], Dict(EmptyMap))
             sec  == d1[row[1]]
         IN  IF ~sec.isdict THEN [raised |-> TRUE, data |-> d1]
             ELSE IF NeedsFix(sec.m, row[2], row[3])
                  THEN [raised |-> FALSE, data |-> Assign(d1, row[1], row[2], row[3])]
                  ELSE EnsureFromStopsAfterFix(d1, i + 1)

RECURSIVE EnsureFrom(_, _)
EnsureFrom(data, i) ==
    IF i > Len(EnsureDefaultsTable) THEN [raised |-> FALSE, data |-> data]
    ELSE LET row  == EnsureDefaultsTable[i]
             d1   == SetDefault(data, row[1], Dict(EmptyMap))
             sec  == d1[row[1]]
         IN  IF ~sec.isdict THEN [raised |-> TRUE, data |-> d1]
             ELSE IF NeedsFix(sec.m, row[2], row[3])
                  THEN EnsureFrom(Assign(d1, row[1], row[2], row[3]), i + 1)
                  ELSE EnsureFrom(d1, i + 1)

\* ensure_defaults(scan_data); an argument that is not a dict has no setdefault
ensure_defaults(obj) ==
    IF ~obj.isdict THEN [raised |-> TRUE, data |-> obj.m]
    ELSE EnsureFrom(obj.m, 1)

(***************************************************************************)
(* validate_url.  Strings are sequences of one-character strings.          *)
(***************************************************************************)
LowerCase == {"a", "b", "c", "d", "e", "f", "g", "h", "i", "j", "k", "l", "m",
              "n", "o", "p", "q", "r", "s", "t", "u", "v", "w", "x", "y", "z"}
UpperCase == {"A", "B", "C", "D", "E", "F", "G", "H", "I", "J", "K", "L", "M",
              "N", "O", "P", "Q", "R", "S", "T", "U", "V", "W", "X", "Y", "Z"}
Digits    == {"0", "1", "2", "3", "4", "5", "6", "7", "8", "9"}
\* urllib.parse.scheme_chars
SchemeChars == LowerCase \cup UpperCase \cup Digits \cup {"+", "-", "."}
\* Characters that have no escape in a string literal are written by their
\* code point, "U+000B"; each is one element of the sequence.
\* the characters str.strip() removes: those for which str.isspace() holds
Whitespace ==
    {"\t", "\n", "U+000B", "\f", "\r", "U+001C", "U+001D", "U+001E", "U+001F", " ",
     "U+0085", "U+00A0", "U+1680", "U+2000", "U+2001", "U+2002", "U+2003",
     "U+2004", "U+2005", "U+2006", "U+2007", "U+2008", "U+2009", "U+200A",
     "U+2028", "U+2029", "U+202F", "U+205F", "U+3000"}
\* ipaddress._BaseV6._HEX_DIGITS
HexDigits == Digits \cup {"a", "b", "c", "d", "e", "f", "A", "B", "C", "D", "E", "F"}

HttpPrefix  == <<"h", "t", "t", "p", ":", "/", "/">>
HttpsPrefix == <<"h", "t", "t", "p", "s", ":", "/", "/">>

\* s.startswith(p)
StartsWith(s, p) == Len(s) >= Len(p) /\ SubSeq(s, 1, Len(p)) = p

\* s.strip()
RECURSIVE LStrip(_)
LStrip(s) == IF s # <<>> /\ Head(s) \in Whitespace THEN LStrip(Tail(s)) ELSE s
RECURSIVE RStrip(_)
RStrip(s) == IF s # <<>> /\ s[Len(s)] \in Whitespace
             THEN RStrip(SubSeq(s, 1, Len(s) - 1)) ELSE s
Strip(s) == RStrip(LStrip(s))

\* s.find(c) for a set of characters: the first index holding one, or 0
FirstIndex(s, cs) ==
    IF \E i \in 1..Len(s) : s[i] \in cs
    THEN CHOOSE i \in 1..Len(s) : s[i] \in cs /\ \A j \in 1..(i - 1) : s[j] \notin cs
    ELSE 0

\* c.lower() on an ASCII character
Lower(c) ==
    IF c \in UpperCase
    THEN CHOOSE l \in LowerCase :
           \E i \in 1..26 :
             /\ <<"A", "B", "C", "D", "E", "F", "G", "H", "I", "J", "K", "L", "M",
                  "N", "O", "P", "Q", "R", "S", "T", "U", "V", "W", "X", "Y", "Z">>[i] = c
             /\ <<"a", "b", "c", "d", "e", "f", "g", "h", "i", "j", "k", "l", "m",
                  "n", "o", "p", "q", "r", "s", "t", "u", "v", "w", "x", "y", "z">>[i] = l
    ELSE c

\* s.lstrip(cs)
RECURSIVE LStripOf(_, _)
LStripOf(s, cs) == IF s # <<>> /\ Head(s) \in cs THEN LStripOf(Tail(s), cs) ELSE s
\* c in s
Has(s, c) == \E i \in 1..Len(s) : s[i] = c
\* s.split(sep)
RECURSIVE Split(_, _)
Split(s, sep) ==
    LET i == FirstIndex(s, {sep})
    IN  IF i = 0 THEN <<s>>
        ELSE <<SubSeq(s, 1, i - 1)>> \o Split(SubSeq(s, i + 1, Len(s)), sep)

\* str(e) of an exception: a text, and the value formatted into it
Message(text, value) == [text |-> text, arg |-> value]
NoMessage == Message("", <<>>)

\* ipaddress.IPv4Address(a) succeeds: four decimal octets without leading
\* zeros, none above 255
IsIPv4(a) ==
    LET octets == Split(a, ".")
        Value(c) == CHOOSE v \in 0..9 :
                      <<"0", "1", "2", "3", "4", "5", "6", "7", "8", "9">>[v + 1] = c
        Number(o) == IF Len(o) = 1 THEN Value(o[1])
                     ELSE IF Len(o) = 2 THEN 10 * Value(o[1]) + Value(o[2])
                     ELSE 100 * Value(o[1]) + 10 * Value(o[2]) + Value(o[3])
        IsOctet(o) == /\ o # <<>>
                      /\ \A i \in 1..Len(o) : o[i] \in Digits
                      /\ Len(o) <= 3
                      /\ o # <<"0">> => o[1] # "0"
                      /\ Number(o) <= 255
    IN  /\ ~Has(a, "/")
        /\ a # <<>>
        /\ Len(octets) = 4
        /\ \A i \in 1..4 : IsOctet(octets[i])

\* ipaddress.IPv6Address(a) succeeds
IsIPv6(a) ==
    LET IsHextet(h) == /\ h # <<>>
                       /\ \A i \in 1..Len(h) : h[i] \in HexDigits
                       /\ Len(h) <= 4
        \* parts holds '::' at index k: hi hextets before it, lo after it
        Compressed(parts, n, k) ==
            LET hi == IF parts[1] = <<>> THEN k - 2 ELSE k - 1
                lo == IF parts[n] = <<>> THEN n - k - 1 ELSE n - k
            IN  /\ parts[1] = <<>> => hi = 0
                /\ parts[n] = <<>> => lo = 0
                /\ 8 - (hi + lo) >= 1
                /\ \A i \in 1..hi : IsHextet(parts[i])
                /\ \A i \in (n - lo + 1)..n : IsHextet(parts[i])
        \* _ip_int_from_string on the parts, gaps the indices of '::'
        Hextets(parts, n, gaps) ==
            /\ n <= 9
            /\ Cardinality(gaps) <= 1
            /\ IF gaps # {} THEN Compressed(parts, n, CHOOSE i \in gaps : TRUE)
               ELSE n = 8 /\ \A i \in 1..n : IsHextet(parts[i])
        Parts(parts) ==
            Hextets(parts, Len(parts), {i \in 2..(Len(parts) - 1) : parts[i] = <<>>})
        \* an IPv4-style last part is replaced by its two hextets
        Colons(raw, last) ==
            /\ Len(raw) >= 3
            /\ Has(last, ".") => IsIPv4(last)
            /\ Parts(IF Has(last, ".")
                     THEN SubSeq(raw, 1, Len(raw) - 1) \o << <<"0">>, <<"0">> >>
                     ELSE raw)
        Split6(raw) == Colons(raw, raw[Len(raw)])
        Address(addr) == addr # <<>> /\ Split6(Split(addr, ":"))
        \* _split_scope_id: pct is the index of the first '%', or 0
        Scoped(pct) ==
            /\ pct # 0 => /\ pct < Len(a)
                          /\ ~Has(SubSeq(a, pct + 1, Len(a)), "%")
            /\ Address(IF pct = 0 THEN a ELSE SubSeq(a, 1, pct - 1))
    IN  ~Has(a, "/") /\ Scoped(FirstIndex(a, {"%"}))

\* urlsplit's checks of the brackets of a netloc and _check_bracketed_host:
\* the message of the ValueError raised, NoMessage when none is
BracketError(netloc) ==
    LET \* re.match(r"\Av[a-fA-F0-9]+\..+\Z", host)
        IsIPvFuture(host) ==
            \E k \in 3..(Len(host) - 1) :
              /\ host[k] = "."
              /\ \A i \in 2..(k - 1) : host[i] \in HexDigits
              /\ \A i \in (k + 1)..Len(host) : host[i] # "\n"
        \* _check_bracketed_host
        Bracketed(host) ==
            IF StartsWith(host, <<"v">>)
            THEN IF IsIPvFuture(host) THEN NoMessage
                 ELSE Message("IPvFuture address is invalid", <<>>)
            ELSE IF IsIPv4(host)
            THEN Message("An IPv4 address cannot be in brackets", <<>>)
            ELSE IF IsIPv6(host) THEN NoMessage
            ELSE Message("%r does not appear to be an IPv4 or IPv6 address", host)
        \* netloc.partition('[')[2].partition(']')[0]
        UpTo(afterOpen, stop) ==
            IF stop = 0 THEN afterOpen ELSE SubSeq(afterOpen, 1, stop - 1)
        HostOf(afterOpen) == UpTo(afterOpen, FirstIndex(afterOpen, {"]"}))
    IN  IF Has(netloc, "[") # Has(netloc, "]")
        THEN Message("Invalid IPv6 URL", <<>>)
        ELSE IF ~Has(netloc, "[") THEN NoMessage
        ELSE Bracketed(HostOf(SubSeq(netloc, FirstIndex(netloc, {"["}) + 1,
                                     Len(netloc))))

\* urllib.parse.urlparse(s): the scheme and the netloc it splits off, or the
\* message of the ValueError it raises.  Leading C0 controls and spaces are
\* stripped and tab, CR and LF removed throughout; the scheme is the part
\* before the first ':' when that part starts with an ASCII letter and
\* consists of scheme_chars, lowered; the netloc follows '//' and ends at the
\* first '/', '?' or '#'.
urlparse(raw) ==
    LET \* _WHATWG_C0_CONTROL_OR_SPACE, stripped from the left
        C0ControlOrSpace ==
            {"U+0000", "U+0001", "U+0002", "U+0003", "U+0004", "U+0005",
             "U+0006", "U+0007", "U+0008", "\t", "\n", "U+000B", "\f", "\r",
             "U+000E", "U+000F", "U+0010", "U+0011", "U+0012", "U+0013",
             "U+0014", "U+0015", "U+0016", "U+0017", "U+0018", "U+0019",
             "U+001A", "U+001B", "U+001C", "U+001D", "U+001E", "U+001F", " "}
        \* _UNSAFE_URL_BYTES_TO_REMOVE
        UnsafeUrlBytes == {"\t", "\r", "\n"}
        \* the characters whose NFKC normalization holds one of / ? # @ :
        NfkcUnsafe ==
            {"U+2047", "U+2048", "U+2049", "U+2100", "U+2101", "U+2105",
             "U+2106", "U+2A74", "U+FE13", "U+FE16", "U+FE55", "U+FE56",
             "U+FE5F", "U+FE6B", "U+FF03", "U+FF0F", "U+FF1A", "U+FF1F",
             "U+FF20"}
        \* the result, or the first error: of the brackets, or of _checknetloc
        Result(scheme, netloc, bracket) ==
            IF bracket # NoMessage
            THEN [error |-> bracket, scheme |-> <<>>, netloc |-> <<>>]
            ELSE IF \E i \in 1..Len(netloc) : netloc[i] \in NfkcUnsafe
            THEN [error |->
                    Message("netloc '%s' contains invalid characters under NFKC normalization",
                            netloc),
                  scheme |-> <<>>, netloc |-> <<>>]
            ELSE [error |-> NoMessage, scheme |-> scheme, netloc |-> netloc]
        Checked(scheme, netloc) == Result(scheme, netloc, BracketError(netloc))
        \* _splitnetloc: the netloc ends at the first '/', '?' or '#'
        UpTo(after, delim) == IF delim = 0 THEN after ELSE SubSeq(after, 1, delim - 1)
        Authority(scheme, after) ==
            Checked(scheme, UpTo(after, FirstIndex(after, {"/", "?", "#"})))
        \* url[:2] == '//'
        AfterScheme(scheme, rest) ==
            Authority(scheme, IF StartsWith(rest, <<"/", "/">>)
                              THEN SubSeq(rest, 3, Len(rest)) ELSE <<>>)
        Schemed(s, colon, hasScheme) ==
            AfterScheme(IF hasScheme THEN [i \in 1..(colon - 1) |-> Lower(s[i])]
                        ELSE <<>>,
                        IF hasScheme THEN SubSeq(s, colon + 1, Len(s)) ELSE s)
        \* url.find(':'), url[0] an ASCII letter, url[:i] of scheme_chars
        AtColon(s, colon) ==
            Schemed(s, colon, /\ colon > 1
                              /\ s[1] \in LowerCase \cup UpperCase
                              /\ \A i \in 1..(colon - 1) : s[i] \in SchemeChars)
        Cleaned(s) == AtColon(s, FirstIndex(s, {":"}))
    IN  Cleaned(SelectSeq(LStripOf(raw, C0ControlOrSpace),
                          LAMBDA c : c \notin UnsafeUrlBytes))

\* html.escape(s): & < > " ' are replaced by their entities
EscapeChar(c) ==
    CASE c = "&"  -> <<"&", "a", "m", "p", ";">>
      [] c = "<"  -> <<"&", "l", "t", ";">>
      [] c = ">"  -> <<"&", "g", "t", ";">>
      [] c = "\"" -> <<"&", "q", "u", "o", "t", ";">>
      [] c = "'"  -> <<"&", "#", "x", "2", "7", ";">>
      [] OTHER    -> <<c>>
RECURSIVE html_escape(_)
html_escape(s) == IF s = <<>> THEN <<>> ELSE EscapeChar(Head(s)) \o html_escape(Tail(s))

\* the URL after strip() and the https:// default
Prefixed(raw) ==
    LET u == Strip(raw)
    IN  IF StartsWith(u, HttpPrefix) \/ StartsWith(u, HttpsPrefix) THEN u
        ELSE HttpsPrefix \o u

\* `if not all([scheme, netloc])` and `'.' not in netloc or len(netloc) < 4`:
\* the message of the ValueError raised, NoMessage when the URL passes
UrlRejected(parsed) ==
    IF parsed.scheme = <<>> \/ parsed.netloc = <<>>
    THEN Message("Invalid URL structure", <<>>)
    ELSE IF ~Has(parsed.netloc, ".") \/ Len(parsed.netloc) < 4
    THEN Message("Invalid domain format", <<>>)
    ELSE NoMessage

\* what validate_url returns for an accepted URL
ValidatedForm(u) == html_escape(u)

\* validate_url(raw): ok is FALSE for the ValueError it raises, err its message
validate_url(raw) ==
    LET \* lines 163-165: ValueError(f"Invalid URL: {str(e)}")
        Result(u, error) ==
            IF error # NoMessage
            THEN [ok |-> FALSE, url |-> <<>>,
                  err |-> Message("Invalid URL: " \o error.text, error.arg)]
            ELSE [ok |-> TRUE, url |-> ValidatedForm(u), err |-> NoMessage]
        \* what the try block raises: the error of urlparse, or of the checks
        Raised(parsed) ==
            IF parsed.error # NoMessage THEN parsed.error ELSE UrlRejected(parsed)
        Checked(u) == Result(u, Raised(urlparse(u)))
    IN  IF raw = <<>>
        THEN [ok |-> FALSE, url |-> <<>>, err |-> Message("URL cannot be empty", <<>>)]
        ELSE Checked(Prefixed(raw))

(***************************************************************************)
(* CATEGORIES: the category catalog.                                       *)
(***************************************************************************)
\* the keys of CATEGORIES whose value is a {"scores": [...], "weight": w} dict
CatalogDictStyle == {"First Impressions & Branding", "User Experience (UX)"}
\* the keys of CATEGORIES whose value is the list of five recommendations
CatalogListStyle == {"Performance & Speed", "Mobile Responsiveness",
                     "SEO & Visibility", "Security & Compliance",
                     "Accessibility", "Analytics & Conversions"}
CATEGORIES == CatalogDictStyle \cup CatalogListStyle
\* every entry of the catalog lists this many recommendation strings
RecommendationCount == 5

(***************************************************************************)
(* auto_score_website: the scorer.                                         *)
(***************************************************************************)
\* the scorer filling in the sanitizer's neutral defaults
ScoreDefaultsTableNeutral ==
    << <<"basic", "load_time", PyFloat(0, 1)>>,
       <<"performance", "page_size_kb", PyFloat(0, 1)>>,
       <<"performance", "requests", PyInt(0)>>,
       <<"performance", "dom_depth", PyInt(0)>> >>

\* required_sections with a default, in iteration order
ScoreDefaultsTable ==
    << <<"basic", "load_time", PyFloat(8, 1)>>,
       <<"performance", "page_size_kb", PyFloat(1000, 1)>>,
       <<"performance", "requests", PyInt(30)>>,
       <<"performance", "dom_depth", PyInt(20)>> >>
\* required_sections, in iteration order
ScoreSections == <<"basic", "performance", "security", "meta", "accessibility",
                   "resources">>

\* The inner loop of the defaults loop for one section, from row i of the
\* table on: page_size_kb is replaced unless it is an int or float; every
\* other key is setdefault'ed, so a present value of any type is kept.  A
\* section that is no dict raises at its first key.
RECURSIVE ScoreDefaultsFrom(_, _, _)
ScoreDefaultsFrom(data, section, i) ==
    IF i > Len(ScoreDefaultsTable) THEN [raised |-> FALSE, data |-> data]
    ELSE LET row == ScoreDefaultsTable[i]
             sec == data[section]
             cur == Get(sec.m, row[2], PyNone)
         IN  IF row[1] # section THEN ScoreDefaultsFrom(data, section, i + 1)
             ELSE IF ~sec.isdict THEN [raised |-> TRUE, data |-> data]
             ELSE IF row[2] = "page_size_kb"
                  THEN IF ~IsNumber(cur)
                       THEN ScoreDefaultsFrom(
                              Assign(data, section, row[2], row[3]), section, i + 1)
                       ELSE ScoreDefaultsFrom(data, section, i + 1)
                  ELSE ScoreDefaultsFrom(
                         [data EXCEPT ![section] =
                            Dict(SetDefault(sec.m, row[2], row[3]))],
                         section, i + 1)

\* The defaults loop from the j-th required section on: for each section,
\* analysis_data.setdefault(section, {}) and then that section's keys, so a
\* raise leaves the later sections as they were.
RECURSIVE ScoreSectionsFrom(_, _)
ScoreSectionsFrom(data, j) ==
    IF j > Len(ScoreSections) THEN [raised |-> FALSE, data |-> data]
    ELSE LET section == ScoreSections[j]
             added   == [sec \in (DOMAIN data) \cup {section} |->
                           IF sec \in DOMAIN data THEN data[sec] ELSE Dict(EmptyMap)]
             filled  == ScoreDefaultsFrom(added, section, 1)
         IN  IF filled.raised THEN filled
             ELSE ScoreSectionsFrom(filled.data, j + 1)

\* the first bracket written as `load_time <= 1.5`
LoadTimePointsInclusive(load_time) ==
    IF ~Gt(load_time, 3, 2) THEN 4
    ELSE IF Lt(load_time, 3, 1) THEN 3
    ELSE IF Lt(load_time, 5, 1) THEN 2
    ELSE IF Lt(load_time, 8, 1) THEN 1
    ELSE 0

\* load time bracket (if / elif chain)
LoadTimePoints(load_time) ==
    IF Lt(load_time, 3, 2) THEN 4
    ELSE IF Lt(load_time, 3, 1) THEN 3
    ELSE IF Lt(load_time, 5, 1) THEN 2
    ELSE IF Lt(load_time, 8, 1) THEN 1
    ELSE 0

PageSizePoints(page_size) ==
    IF Lt(page_size, 300, 1) THEN 2
    ELSE IF Lt(page_size, 800, 1) THEN 1
    ELSE 0

RequestsPoints(requests) ==
    IF Lt(requests, 15, 1) THEN 2
    ELSE IF Lt(requests, 30, 1) THEN 1
    ELSE 0

DomDepthPoints(dom_depth) ==
    IF Lt(dom_depth, 15, 1) THEN 1
    ELSE IF Gt(dom_depth, 30, 1) THEN -1
    ELSE 0

Min(a, b) == IF a < b THEN a ELSE b
Max(a, b) == IF a > b THEN a ELSE b

\* scores['Performance & Speed'] = min(max(1, perf_score // 2), 5)
\* the half rounded up instead of floored
PerformanceScoreRoundsUp(basic, perf) ==
    LET perf_score == LoadTimePoints(basic["load_time"])
                      + PageSizePoints(perf["page_size_kb"])
                      + RequestsPoints(perf["requests"])
                      + DomDepthPoints(perf["dom_depth"])
    IN  Min(Max(1, (perf_score + 1) \div 2), 5)

PerformanceScore(basic, perf) ==
    LET perf_score == LoadTimePoints(basic["load_time"])
                      + PageSizePoints(perf["page_size_kb"])
                      + RequestsPoints(perf["requests"])
                      + DomDepthPoints(perf["dom_depth"])
    IN  Min(Max(1, perf_score \div 2), 5)
\* `<` and `>` raise TypeError unless the operand is a number
PerformanceRaises(basic, perf) ==
    \/ ~IsNumber(basic["load_time"])
    \/ ~IsNumber(perf["page_size_kb"])
    \/ ~IsNumber(perf["requests"])
    \/ ~IsNumber(perf["dom_depth"])

Flag(m, key) == Truthy(Get(m, key, PyBool(FALSE)))

\* https counted as 2 points
HttpsPointsTwo(security) == IF Flag(security, "https") THEN 2 ELSE 0

\* the points added for security['https']
HttpsPoints(security) == IF Flag(security, "https") THEN 3 ELSE 0

SecurityScore(security) ==
    LET sec_score == 1 + HttpsPoints(security)
                     + (IF Flag(security, "hsts") THEN 1 ELSE 0)
                     + (IF Flag(security, "content_security_policy") THEN 1 ELSE 0)
                     + (IF Flag(security, "x_frame_options") THEN 1 ELSE 0)
    IN  Min(sec_score, 5)

\* the title range written as `30 < len(title) < 60`
TitleInRangeExclusive(title) ==
    Truthy(title) /\ 30 < PyLen(title) /\ PyLen(title) < 60

\* `if title and 30 <= len(title) <= 60`
TitleInRange(title) == Truthy(title) /\ 30 <= PyLen(title) /\ PyLen(title) <= 60
\* `if description and 50 <= len(description) <= 160`
DescriptionInRange(description) ==
    Truthy(description) /\ 50 <= PyLen(description) /\ PyLen(description) <= 160

SEOScore(meta) ==
    LET title       == Get(meta, "title", PyStr(<<>>))
        description == Get(meta, "description", PyStr(<<>>))
        seo_score   == 1 + (IF TitleInRange(title) THEN 2 ELSE 0)
                       + (IF DescriptionInRange(description) THEN 2 ELSE 0)
                       + (IF Flag(meta, "viewport") THEN 1 ELSE 0)
                       + (IF Truthy(Get(meta, "canonical", PyStr(<<>>))) THEN 1 ELSE 0)
                       + (IF Truthy(Get(meta, "og_tags", PyDict(0))) THEN 1 ELSE 0)
    IN  Min(seo_score, 5)
\* len() of a truthy value that has no length raises TypeError
SEORaises(meta) ==
    LET title       == Get(meta, "title", PyStr(<<>>))
        description == Get(meta, "description", PyStr(<<>>))
    IN  \/ Truthy(title) /\ ~HasLen(title)
        \/ Truthy(description) /\ ~HasLen(description)

\* the viewport counted as 2 points
MobileScoreViewportTwo(meta, resources) ==
    LET mobile_score == 1 + (IF Flag(meta, "viewport") THEN 2 ELSE 0)
                        + (IF Gt(Get(resources, "stylesheets", PyInt(0)), 0, 1)
                           THEN 1 ELSE 0)
    IN  Min(mobile_score, 5)

MobileScore(meta, resources) ==
    LET mobile_score == 1 + (IF Flag(meta, "viewport") THEN 3 ELSE 0)
                        + (IF Gt(Get(resources, "stylesheets", PyInt(0)), 0, 1)
                           THEN 1 ELSE 0)
    IN  Min(mobile_score, 5)
MobileRaises(resources) == ~IsNumber(Get(resources, "stylesheets", PyInt(0)))

FirstImpressionsScore(meta) ==
    LET first_imp_score == 2 + (IF Flag(meta, "has_favicon") THEN 1 ELSE 0)
                           + (IF Truthy(Get(meta, "title", PyStr(<<>>))) THEN 1 ELSE 0)
                           + (IF Truthy(Get(meta, "description", PyStr(<<>>)))
                              THEN 1 ELSE 0)
    IN  Min(first_imp_score, 5)

\* response_text: None, the empty string, a text whose p/h1/h2/h3 elements
\* hold `words` words, or a text on which BeautifulSoup raises
NoText       == [supplied |-> FALSE, empty |-> TRUE, parses |-> TRUE, words |-> 0]
EmptyText    == [supplied |-> TRUE, empty |-> TRUE, parses |-> TRUE, words |-> 0]
Text(words)  == [supplied |-> TRUE, empty |-> FALSE, parses |-> TRUE, words |-> words]
UnparsedText == [supplied |-> TRUE, empty |-> FALSE, parses |-> FALSE, words |-> 0]
\* `if response_text:` holds for a text that is neither None nor empty; the
\* bare `except: pass` leaves the default when the parser raises
ContentScore(response_text) ==
    LET content_score ==
          IF ~response_text.supplied \/ response_text.empty THEN 3
          ELSE IF ~response_text.parses THEN 3
          ELSE IF response_text.words > 500 THEN 4
          ELSE IF response_text.words < 100 THEN 2
          ELSE 3
    IN  Min(Max(1, content_score), 5)

AccessibilityScore(resources, accessibility) ==
    LET total_images == Get(resources, "images", PyInt(0))
        alt_images   == Get(accessibility, "alt_text_images", PyInt(0))
        \* alt_ratio = alt_images / total_images is a float, whatever the
        \* operands; it is then compared with the floats 0.9 and 0.5
        Points(alt_ratio) ==
            IF FloatGt(alt_ratio, ToFloat(PyFloat(9, 10))) THEN 2
            ELSE IF FloatGt(alt_ratio, ToFloat(PyFloat(1, 2))) THEN 1 ELSE 0
        altPoints    == IF Gt(total_images, 0, 1)
                        THEN Points(FloatDiv(ToFloat(alt_images), ToFloat(total_images)))
                        ELSE 0
        accessibility_score ==
            1 + altPoints
            + (IF Flag(accessibility, "lang_attribute") THEN 1 ELSE 0)
            + (IF Gt(Get(accessibility, "aria_attributes", PyInt(0)), 0, 1)
               THEN 1 ELSE 0)
    IN  Min(accessibility_score, 5)
AccessibilityRaises(resources, accessibility) ==
    LET total_images == Get(resources, "images", PyInt(0))
        alt_images   == Get(accessibility, "alt_text_images", PyInt(0))
    IN  \/ ~IsNumber(total_images)
        \/ Gt(total_images, 0, 1) /\ ~IsNumber(alt_images)
        \/ ~IsNumber(Get(accessibility, "aria_attributes", PyInt(0)))

\* the keys the scorer puts in `scores`
ScoredCategories ==
    {"Performance & Speed", "Security & Compliance", "SEO & Visibility",
     "Mobile Responsiveness", "First Impressions & Branding", "Content Quality",
     "Accessibility"}

NoScores == [c \in {} |-> 0]

\* the body of auto_score_website once analysis_data is a dict
ScoreDict(data0, response_text) ==
    LET prep == ScoreSectionsFrom(data0, 1)
        data == prep.data
        allDicts == \A i \in 1..Len(ScoreSections) : data[ScoreSections[i]].isdict
        basic == data["basic"].m
        perf  == data["performance"].m
        security == data["security"].m
        meta  == data["meta"].m
        accessibility == data["accessibility"].m
        resources == data["resources"].m
    IN  IF prep.raised \/ ~allDicts
        THEN [raised |-> TRUE, scores |-> NoScores, data |-> data]
        ELSE IF \/ PerformanceRaises(basic, perf)
                \/ SEORaises(meta)
                \/ MobileRaises(resources)
                \/ AccessibilityRaises(resources, accessibility)
        THEN [raised |-> TRUE, scores |-> NoScores, data |-> data]
        ELSE [raised |-> FALSE,
              scores |->
                [c \in ScoredCategories |->
                   CASE c = "Performance & Speed" -> PerformanceScore(basic, perf)
                     [] c = "Security & Compliance" -> SecurityScore(security)
                     [] c = "SEO & Visibility" -> SEOScore(meta)
                     [] c = "Mobile Responsiveness" -> MobileScore(meta, resources)
                     [] c = "First Impressions & Branding" -> FirstImpressionsScore(meta)
                     [] c = "Content Quality" -> ContentScore(response_text)
                     [] OTHER -> AccessibilityScore(resources, accessibility)],
              data |-> data]

\* auto_score_website(analysis_data, response_text): an argument that is not
\* a dict is replaced by initialize_results()
auto_score_website(obj, response_text) ==
    IF ~obj.isdict THEN ScoreDict(initialize_results, response_text)
    ELSE ScoreDict(obj.m, response_text)

(***************************************************************************)
(* create_results_dataframe.                                               *)
(***************************************************************************)
\* The lookup of one category's recommendation raises when the category is
\* not a key of CATEGORIES (CATEGORIES.get(category, {}) is then a dict and
\* CATEGORIES[category] a KeyError) or when score-1 is no index of its list.
RecommendationRaises(category, score) ==
    \/ category \notin CATEGORIES
    \/ score - 1 >= RecommendationCount
    \/ score - 1 < -RecommendationCount

\* create_results_dataframe(scores, url): "raised" or the rows' indices
create_results_dataframe(sc) ==
    IF \E c \in DOMAIN sc : RecommendationRaises(c, sc[c])
    THEN [raised |-> TRUE, rows |-> NoScores]
    ELSE [raised |-> FALSE, rows |-> [c \in DOMAIN sc |-> sc[c] - 1]]

(***************************************************************************)
(* Inputs of the functions under test.                                     *)
(***************************************************************************)
\* values of every Python type, to stand in a field where they do not belong
ValuePool == {PyNone, PyStr(<<"a", "b", "c">>), PyInt(0), PyInt(7), PyFloat(5, 2),
              PyBool(TRUE), PyList(2), PyDict(0)}

\* a record as a scan of a well-equipped page leaves it
RichRecord ==
    [sec \in SectionNames |->
        CASE sec = "basic" ->
               Dict([load_time |-> PyFloat(12, 10), scan_timestamp |-> Timestamp])
          [] sec = "meta" ->
               Dict([title |-> PyStr(Chars(40)), title_length |-> PyInt(40),
                     description |-> PyStr(Chars(100)), viewport |-> PyBool(TRUE),
                     has_favicon |-> PyBool(TRUE), canonical |-> PyStr(Chars(5)),
                     og_tags |-> PyDict(0)])
          [] sec = "resources" ->
               Dict([images |-> PyInt(4), stylesheets |-> PyInt(2),
                     scripts |-> PyInt(3)])
          [] sec = "performance" ->
               Dict([page_size_kb |-> PyFloat(250, 1), requests |-> PyInt(0),
                     dom_elements |-> PyInt(0), dom_depth |-> PyInt(0)])
          [] sec = "security" ->
               Dict([https |-> PyBool(TRUE), hsts |-> PyBool(TRUE),
                     content_security_policy |-> PyBool(FALSE),
                     x_frame_options |-> PyBool(TRUE)])
          [] OTHER ->
               Dict([alt_text_images |-> PyInt(3), lang_attribute |-> PyBool(TRUE),
                     aria_attributes |-> PyInt(1)])]

\* the ways to pick the places of up to k faults among `places`
FaultSites(places, k) ==
    {sites \in SUBSET places : 1 <= Cardinality(sites) /\ Cardinality(sites) <= k}

\* the records up to k faults of one kind away from `data`: sections dropped
\* or replaced by a non-dict, fields of one section dropped or replaced by
\* a value of the pool
FaultsOf(data, k) ==
    {[sec \in (DOMAIN data) \ gone |-> data[sec]] : gone \in FaultSites(DOMAIN data, k)}
    \cup {[sec \in DOMAIN data |-> IF sec \in bad THEN NonDict ELSE data[sec]]
             : bad \in FaultSites(DOMAIN data, k)}
    \cup UNION {UNION {{[data EXCEPT ![sec] = Dict(DelKeys(data[sec].m, keys))]}
                       \cup {[data EXCEPT ![sec] =
                                 Dict([key \in DOMAIN data[sec].m |->
                                         IF key \in keys THEN v ELSE data[sec].m[key]])]
                               : v \in ValuePool}
                       : keys \in FaultSites(DOMAIN data[sec].m, k)}
                : sec \in DOMAIN data}

\* malformed records: the empty dict, the records holding one section that
\* is no dict, a freshly initialized and a well-equipped record, and the
\* records up to MaxFaults faults away from them
MalformedRecords ==
    {[sec \in {} |-> NonDict], initialize_results, RichRecord}
    \cup {[sec \in {only} |-> NonDict] : only \in SectionNames}
    \cup FaultsOf(initialize_results, MaxFaults) \cup FaultsOf(RichRecord, MaxFaults)

\* what ensure_defaults is tried on; the last is an argument that is no dict
SanitizeInputs == {Dict(data) : data \in MalformedRecords} \cup {NonDict}

\* grids of well-typed values around every threshold of the rubric
LoadTimes   == {PyFloat(t, 10) : t \in {0, 14, 15, 16, 29, 30, 49, 50, 79, 80, 200}}
PageSizes   == {PyFloat(k, 10) : k \in {0, 2999, 3000, 3001, 7999, 8000, 10000}}
RequestNums == {PyInt(k) : k \in {0, 14, 15, 29, 30}}
DomDepths   == {PyInt(k) : k \in {0, 14, 15, 30, 31}}
TitleLens   == {0, 29, 30, 60, 61}
DescLens    == {0, 49, 50, 100, 160, 161}

With(data, sec, m) == [data EXCEPT ![sec] = Dict(m)]
Merge(m, over)     == [k \in (DOMAIN m) \cup (DOMAIN over) |->
                          IF k \in DOMAIN over THEN over[k] ELSE m[k]]

PerformanceGrid ==
    {With(With(initialize_results, "basic",
               Merge(initialize_results["basic"].m, [load_time |-> lt])),
          "performance",
          Merge(initialize_results["performance"].m,
                [page_size_kb |-> ps, requests |-> rq, dom_depth |-> dd]))
     : <<lt, ps, rq, dd>> \in LoadTimes \X PageSizes \X RequestNums \X DomDepths}

SecurityGrid ==
    {With(initialize_results, "security",
          [https |-> PyBool(a), hsts |-> PyBool(b),
           content_security_policy |-> PyBool(c), x_frame_options |-> PyBool(d)])
     : <<a, b, c, d>> \in BOOLEAN \X BOOLEAN \X BOOLEAN \X BOOLEAN}

MetaGrid ==
    {With(initialize_results, "meta",
          Merge(initialize_results["meta"].m,
                [title |-> PyStr(Chars(tl)), title_length |-> PyInt(tl),
                 description |-> PyStr(Chars(dl)), viewport |-> PyBool(vp),
                 canonical |-> PyStr(Chars(cn)), og_tags |-> PyDict(og)]))
     : <<tl, dl, vp, cn, og>> \in TitleLens \X DescLens \X BOOLEAN \X {0, 5} \X {0, 1}}

MobileGrid ==
    {With(With(initialize_results, "meta",
               Merge(initialize_results["meta"].m,
                     [viewport |-> PyBool(vp), has_favicon |-> PyBool(fv)])),
          "resources",
          Merge(initialize_results["resources"].m, [stylesheets |-> PyInt(st)]))
     : <<vp, fv, st>> \in BOOLEAN \X BOOLEAN \X {0, 1, 2}}

\* counts on both sides of the two ratio thresholds; 0.27 / 0.3 is the
\* float 0.9000000000000001
AccessibilityGrid ==
    {With(With(initialize_results, "resources",
               Merge(initialize_results["resources"].m, [images |-> im])),
          "accessibility",
          [alt_text_images |-> al, lang_attribute |-> PyBool(lg),
           aria_attributes |-> PyInt(ar)])
     : <<im, al, lg, ar>> \in
         {PyInt(0), PyInt(10), PyFloat(3, 10)}
         \X {PyInt(0), PyInt(5), PyInt(6), PyInt(9), PyInt(10), PyFloat(27, 100)}
         \X BOOLEAN \X {0, 1}}

TextInputs == {NoText, EmptyText, UnparsedText,
               Text(0), Text(99), Text(100), Text(500), Text(501)}

\* what auto_score_website is tried on: [data, text]
ScoreInputs ==
    {[data |-> Dict(data), text |-> NoText]
       : data \in PerformanceGrid \cup SecurityGrid \cup MetaGrid \cup MobileGrid
                  \cup AccessibilityGrid \cup MalformedRecords}
    \cup {[data |-> Dict(initialize_results), text |-> txt] : txt \in TextInputs}
    \cup {[data |-> NonDict, text |-> NoText]}

\* the URL strings validate_url is tried on: optional whitespace, an
\* optional scheme prefix, a host part, an optional path or query
ExampleComInput == <<"e", "x", "a", "m", "p", "l", "e", ".", "c", "o", "m">>
NotAUrlInput    == <<"n", "o", "t", " ", "a", " ", "u", "r", "l">>
UrlInputs ==
    LET Leads   == {<<>>, <<" ">>, <<"\f">>}
        Schemes == {<<>>, HttpPrefix, HttpsPrefix, <<"f", "t", "p", ":", "/", "/">>,
                   <<"H", "T", "T", "P", ":", "/", "/">>}
        Hosts   == {<<>>,
                   <<"a", ".", "b">>,
                   <<"a", ".", "b", "c">>,
                   <<"a", "b", "c", "d">>,
                   <<"a", ".", "b", ":", "8">>,
                   NotAUrlInput,
                   ExampleComInput}
        Tails   == {<<>>, <<"/">>, <<"/", "p", "?", "a", "&", "b">>, <<"?", "q", "=", "<">>,
                   <<"#", "'">>}
        Trails  == {<<>>, <<" ">>, <<"\n">>, <<"U+00A0">>}
        \* the characters and brackets urlsplit treats specially: stripped and
        \* removed characters, bracketed hosts, NFKC-unsafe characters
        Specials ==
            {<<"\f", "a", ".", "b", "c">>,
             <<"a", ".", "b", "c", "\f">>,
             <<"U+00A0", "a", ".", "b", "c", "U+3000">>,
             <<"U+0000", "a", ".", "b", "c">>,
             <<"a", ".", "b", "c", "U+001F">>,
             <<"U+000B", "h", "t", "t", "p", ":", "/", "/", "a", ".", "b", "c">>,
             <<"a", "\t", ".", "b">>,
             <<"a", "\t", ".", "b", "c">>,
             <<"a", ".", "b", "\n", "c">>,
             <<"f", "t", "p", ":", "/", "/", "\n">>,
             <<"h", "t", "t", "p", ":", "/", "/", "a", "\r", ".", "b", "c", "/", "p">>,
             <<"[", "a", ".", "b">>,
             <<"a", ".", "b", "]">>,
             <<"a", ".", "b", "c", "/", "[">>,
             <<"[", ":", ":", "1", "]">>,
             <<"[", ":", ":", "1", ".", "2", ".", "3", ".", "4", "]">>,
             <<"[", "1", ".", "2", ".", "3", ".", "4", "]">>,
             <<"[", "0", "1", ".", "2", ".", "3", ".", "4", "]">>,
             <<"[", "v", "1", ".", "a", "]">>,
             <<"[", "v", ".", "a", "]">>,
             <<"[", "v", "g", ".", "a", "]">>,
             <<"[", "v", "1", "F", ".", "]">>,
             <<"[", "a", ".", "b", "]">>,
             <<"[", "1", ":", "2", ":", "3", ":", "4", ":", "5", ":", "6", ":", "7", ".", "8", ".", "9", ".", "1", "0", "]">>,
             <<"[", "1", ":", "2", ":", "3", ":", "4", ":", "5", ":", "6", ":", "7", ".", "8", ".", "9", ".", "2", "5", "6", "]">>,
             <<"[", ":", ":", "1", "%", "e", ".", "0", "]">>,
             <<"[", ":", ":", "1", ".", "2", ".", "3", ".", "4", "%", "]">>,
             <<"[", "1", ":", ":", "2", ":", ":", "3", ".", "4", ".", "5", ".", "6", "]">>,
             <<"[", ":", "1", ".", "2", ".", "3", ".", "4", "]">>,
             <<"[", "1", ":", "2", ":", "3", ":", "4", ":", "5", ":", "6", ":", "7", ":", "8", ".", "b", "]">>,
             <<"[", "1", "2", "3", "4", "5", ":", ":", "1", ".", "2", ".", "3", ".", "4", "]">>,
             <<"[", ":", ":", "1", ".", "2", ".", "3", ".", "4", "]", ":", "8", "0">>,
             <<"[", ":", ":", "g", ".", "1", "]">>,
             <<"[", ":", ":", "1", ".", "2", ".", "3", ".", "4", "/", "8", "]">>,
             <<"[", "1", ".", "2", ".", "3", ".", "4", "]", "x", "[">>,
             <<"a", ".", "b", "U+FF0F", "c">>,
             <<"a", ".", "b", "U+2100">>,
             <<"U+FF20", "a", ".", "b", "c">>,
             <<"a", ".", "b", "c", "/", "U+FF0F">>,
             <<"h", "t", "t", "p", ":", "/", "/", "[", ":", ":", "1", ".", "2", ".", "3", ".", "4", "]", "/", "?", "a", "&", "b">>}
    IN  Specials \cup
        {l \o s \o h \o t \o r
         : <<l, s, h, t, r>> \in Leads \X Schemes \X Hosts \X Tails \X Trails}

(***************************************************************************)
(* Values of the variables a specification does not use.                   *)
(***************************************************************************)
NoValidation == [ok |-> FALSE, url |-> <<>>, err |-> NoMessage]
NoResponse   == [conn |-> "none", redirects |-> 0, status |-> 0,
                 elapsed |-> PyFloat(0, 1), final |-> <<>>, bytes |-> 0,
                 error |-> "", later |-> PyFloat(0, 1)]
NoReturn     == [status |-> "none", message |-> NoMessage, data |-> EmptyMap,
                 issues |-> <<>>]
NoDocument   == [doc |-> [headers |-> {}], failAt |-> 0]
NoResult     == [raised |-> FALSE, data |-> EmptyMap]
NoScoring    == [raised |-> FALSE, scores |-> NoScores, data |-> EmptyMap]

PipelineIdle ==
    /\ vurl = NoValidation /\ surl = NoValidation /\ resp = NoResponse
    /\ results = EmptyMap /\ issues = <<>> /\ ret = NoReturn /\ fetches = 0
    /\ soup = NoDocument /\ page = "none"
PipelineVars == <<vurl, surl, resp, results, issues, ret, soup, fetches, page>>

(***************************************************************************)
(* ensure_defaults applied to a record, and again to its own result.       *)
(***************************************************************************)
InitSanitize ==
    /\ pc = "sanitize"
    /\ arg \in SanitizeInputs
    /\ once = NoResult /\ twice = NoResult
    /\ url = <<>> /\ scores = NoScoring
    /\ PipelineIdle

SanitizeOnce ==
    /\ pc = "sanitize"
    /\ once' = ensure_defaults(arg)
    /\ pc' = "sanitized"
    /\ UNCHANGED <<arg, twice, url, scores>>
    /\ UNCHANGED PipelineVars

\* only a call that returned has a result to sanitize again
SanitizeTwice ==
    /\ pc = "sanitized"
    /\ ~once.raised
    /\ twice' = ensure_defaults(Dict(once.data))
    /\ pc' = "resanitized"
    /\ UNCHANGED <<arg, once, url, scores>>
    /\ UNCHANGED PipelineVars

NextSanitize == SanitizeOnce \/ SanitizeTwice
SpecSanitize == InitSanitize /\ [][NextSanitize]_vars

(***************************************************************************)
(* auto_score_website applied to a record.                                 *)
(***************************************************************************)
InitScore ==
    /\ pc = "score"
    /\ arg \in ScoreInputs
    /\ once = NoResult /\ twice = NoResult
    /\ url = <<>> /\ scores = NoScoring
    /\ PipelineIdle

Score ==
    /\ pc = "score"
    /\ scores' = auto_score_website(arg.data, arg.text)
    /\ pc' = "scored"
    /\ UNCHANGED <<arg, once, twice, url>>
    /\ UNCHANGED PipelineVars

\* the scores go on to create_results_dataframe
Report ==
    /\ pc = "scored"
    /\ ~scores.raised
    /\ once' = create_results_dataframe(scores.scores)
    /\ pc' = "reported"
    /\ UNCHANGED <<arg, twice, url, scores>>
    /\ UNCHANGED PipelineVars

NextScore == Score \/ Report
SpecScore == InitScore /\ [][NextScore]_vars

(***************************************************************************)
(* validate_url applied to a string, and again to its own result.          *)
(***************************************************************************)
InitValidate ==
    /\ pc = "validate"
    /\ url \in UrlInputs
    /\ once = NoValidation /\ twice = NoValidation
    /\ arg = NonDict /\ scores = NoScoring
    /\ PipelineIdle

ValidateOnce ==
    /\ pc = "validate"
    /\ once' = validate_url(url)
    /\ pc' = "validated"
    /\ UNCHANGED <<arg, twice, url, scores>>
    /\ UNCHANGED PipelineVars

ValidateTwice ==
    /\ pc = "validated"
    /\ once.ok
    /\ twice' = validate_url(once.url)
    /\ pc' = "revalidated"
    /\ UNCHANGED <<arg, once, url, scores>>
    /\ UNCHANGED PipelineVars

NextValidate == ValidateOnce \/ ValidateTwice
SpecValidate == InitValidate /\ [][NextValidate]_vars

(***************************************************************************)
(* scan_website: the page fetch.                                           *)
(***************************************************************************)
REQUEST_TIMEOUT == 20
MAX_REDIRECTS   == 5

\* What session.get(..., allow_redirects=True, stream=True) and the read of
\* response.content met:
\*   conn      "ok", or why no response was obtained or its body not read
\*   redirects how many redirects the server answered with
\*   status    the status of the final response
\*   elapsed   time.time() - start_time when session.get returned or raised
\*   final     response.url, the URL of the final response
\*   bytes     len(response.content)
\*   error     str(e) of the exception raised, if one is
\*   later     time.time() - start_time when the read of the body raised
Transport(conn, redirects, status, elapsed, final, bytes, error, later) ==
    [conn |-> conn, redirects |-> redirects, status |-> status,
     elapsed |-> elapsed, final |-> final, bytes |-> bytes, error |-> error,
     later |-> later]

\* final responses without a redirect: status, elapsed time, body size
Responses == {<<200, PyFloat(4, 10), 307200>>, <<200, PyFloat(9, 1), 0>>,
              <<304, PyFloat(9, 1), 307200>>, <<404, PyFloat(4, 10), 307200>>,
              <<503, PyFloat(9, 1), 0>>}
\* str(e) of an exception that is no RequestException: any text, the empty
\* one included (RuntimeError(), KeyError())
OtherErrors  == {"", "boom"}

\* str(parse_error) of what the inner try block raised
ParseError == "boom"

\* where a redirect can lead; requests keeps the scheme in lower case
RedirectTargets == {HttpPrefix \o <<"a", ".", "b", "c", "/">>,
                    HttpsPrefix \o <<"a", ".", "b", "c", "/">>}

\* what a request of the URL `requested` can meet; without a redirect the
\* final URL is the requested one
FetchOutcomes(requested) ==
    LET StatusError(st) == IF st < 400 THEN ""
                           ELSE IF st < 500 THEN "Client Error" ELSE "Server Error"
    IN  {Transport("ok", 0, r[1], r[2], requested, r[3], StatusError(r[1]), r[2])
           : r \in Responses}
        \cup {Transport("ok", 1, 200, PyFloat(9, 1), to, 307200, "", PyFloat(9, 1))
                 : to \in RedirectTargets}
        \cup {Transport("ok", MAX_REDIRECTS, 200, PyFloat(9, 1),
                        HttpsPrefix \o <<"a", ".", "b", "c", "/">>, 307200, "",
                        PyFloat(9, 1)),
              Transport("ok", MAX_REDIRECTS + 1, 301, PyFloat(9, 1), <<>>, 0,
                        "Exceeded 5 redirects.", PyFloat(9, 1)),
              Transport("timeout", 0, 0, PyFloat(REQUEST_TIMEOUT, 1), <<>>, 0,
                        "Read timed out.", PyFloat(REQUEST_TIMEOUT, 1)),
              Transport("refused", 0, 0, PyFloat(4, 10), <<>>, 0,
                        "Connection refused", PyFloat(4, 10)),
              Transport("broken_body", 0, 200, PyFloat(4, 10), requested, 0,
                        "Connection broken", PyFloat(9, 1))}
        \cup {Transport("other", 0, 0, PyFloat(4, 10), <<>>, 0, err, PyFloat(4, 10))
                 : err \in OtherErrors}
        \cup {Transport("other_body", 0, 200, PyFloat(9, 1), requested, 0, err,
                        PyFloat(9, 1))
                 : err \in OtherErrors}

\* response.raise_for_status(): HTTPError for a 4xx or 5xx status only
RaiseForStatus(status) == 400 <= status /\ status < 600

\* the exception lines 206-215 end with, or "none": session.get and
\* raise_for_status
FetchException(o) ==
    CASE o.conn = "timeout" -> "Timeout"
      [] o.conn = "refused" -> "ConnectionError"
      [] o.conn = "other"   -> "Exception"
      [] o.redirects > MAX_REDIRECTS -> "TooManyRedirects"
      [] RaiseForStatus(o.status) -> "HTTPError"
      [] OTHER -> "none"

\* the exception the read of response.content at line 219 ends with, or "none"
BodyException(o) ==
    CASE o.conn = "broken_body" -> "ChunkedEncodingError"
      [] o.conn = "other_body"  -> "Exception"
      [] OTHER -> "none"

\* the handler catching only requests.exceptions.Timeout
IsRequestExceptionNarrow(e) == e = "Timeout"

\* `except requests.exceptions.RequestException`
IsRequestException(e) ==
    e \in {"Timeout", "ConnectionError", "TooManyRedirects", "HTTPError",
           "ChunkedEncodingError"}

\* a check for the prefix http:// instead
IsHttpsAnyHttp(u) == StartsWith(u, HttpPrefix) \/ StartsWith(u, HttpsPrefix)

\* response.url.startswith('https://')
IsHttps(u) == StartsWith(u, HttpsPrefix)

\* line 218: load_time, written once the response is there
CaptureLoadTime(data, o) == Assign(data, "basic", "load_time", o.elapsed)

\* lines 219-221: the metrics captured from the body and the final URL
CaptureBody(data, o) ==
    Assign(Assign(data, "performance", "page_size_kb", PyFloat(o.bytes, 1024)),
           "security", "https", PyBool(IsHttps(o.final)))

\* an entry of results['issues'], f"{prefix}{str(e)}", kept as its parts
Issue(prefix, m) == [prefix |-> prefix, text |-> m.text, arg |-> m.arg]

\* the handler leaving load_time as it was
OnRequestFailureKeepsTime(data, now) ==
    Assign(data, "performance", "page_size_kb", PyFloat(0, 1))

\* lines 267-268: what the RequestException handler writes; `now` is
\* time.time() - start_time in the handler
OnRequestFailure(data, now) ==
    Assign(Assign(data, "basic", "load_time", now),
           "performance", "page_size_kb", PyFloat(0, 1))

(***************************************************************************)
(* scan_website: extraction from the parsed document.                      *)
(***************************************************************************)
\* an attribute the tag does not carry
AbsentAttr == [ty |-> "absent", n |-> 0, d |-> 1, s |-> <<>>]

\* tag.get(name, dflt)
AttrGet(attr, dflt) == IF attr = AbsentAttr THEN dflt ELSE attr

HeaderNames == {"strict-transport-security", "content-security-policy",
                "x-frame-options"}

\* What the parsed page holds.  title is "none" (no <title>), "empty"
\* (soup.title.string is None) or "text"; meta is "none" (no such tags),
\* "bare" (the tags without content / href / lang attributes) or "full";
\* count is the number of img, stylesheet link and script tags.
Document(title, meta, count, headers) ==
    [title_tag      |-> title # "none",
     title_string   |-> IF title = "text" THEN PyStr(Chars(40)) ELSE PyNone,
     meta_desc      |-> meta # "none",
     desc_content   |-> IF meta = "full" THEN PyStr(Chars(100)) ELSE AbsentAttr,
     meta_viewport  |-> meta # "none",
     link_icon      |-> meta = "full",
     link_canonical |-> meta # "none",
     canonical_href |-> IF meta = "full" THEN PyStr(Chars(5)) ELSE AbsentAttr,
     html_tag       |-> TRUE,
     html_lang      |-> IF meta = "full" THEN PyStr(<<"e", "n">>) ELSE AbsentAttr,
     img            |-> count,
     img_alt        |-> IF count > 0 THEN count - 1 ELSE 0,
     aria           |-> count,
     stylesheets    |-> count,
     scripts        |-> IF count > 0 THEN count - 1 ELSE 0,
     headers        |-> headers]

Documents ==
    {Document(title, meta, count, headers)
       : <<title, meta, count, headers>> \in
           {"none", "empty", "text"} \X {"none", "bare", "full"} \X (0..MaxCount)
           \X {{}, {"strict-transport-security"},
               {"content-security-policy", "x-frame-options"}, HeaderNames}}

\* `canonical.get('href')`: no default for a link without href
CanonicalOfNoDefault(doc) ==
    IF doc.link_canonical THEN AttrGet(doc.canonical_href, PyNone) ELSE PyStr(<<>>)

\* `canonical.get('href', '') if canonical else ''`
CanonicalOf(doc) ==
    IF doc.link_canonical THEN AttrGet(doc.canonical_href, PyStr(<<>>)) ELSE PyStr(<<>>)

\* `soup.title.string or ''`
TitleOf(doc) == IF Truthy(doc.title_string) THEN doc.title_string ELSE PyStr(<<>>)

\* the statements of the inner try block, in order
ExtractSteps == 15

\* the k-th statement of the inner try block applied to the record
ExtractStep(k, data, doc) ==
    CASE k = 1 -> data      \* content.decode(...) and safe_html_parse(...)
      [] k = 2 -> IF doc.title_tag
                  THEN Assign(Assign(data, "meta", "title", TitleOf(doc)),
                              "meta", "title_length", PyInt(Len(TitleOf(doc).s)))
                  ELSE data
      [] k = 3 -> Assign(data, "meta", "description",
                         IF doc.meta_desc THEN AttrGet(doc.desc_content, PyStr(<<>>))
                         ELSE PyStr(<<>>))
      [] k = 4 -> Assign(data, "meta", "viewport", PyBool(doc.meta_viewport))
      [] k = 5 -> Assign(data, "meta", "has_favicon", PyBool(doc.link_icon))
      [] k = 6 -> Assign(data, "meta", "canonical", CanonicalOf(doc))
      [] k = 7 -> Assign(data, "accessibility", "alt_text_images", PyInt(doc.img_alt))
      [] k = 8 -> Assign(data, "accessibility", "lang_attribute",
                         IF doc.html_tag
                         THEN PyBool(Truthy(AttrGet(doc.html_lang, PyStr(<<>>))))
                         ELSE PyBool(FALSE))
      [] k = 9 -> Assign(data, "accessibility", "aria_attributes", PyInt(doc.aria))
      [] k = 10 -> Assign(data, "resources", "images", PyInt(doc.img))
      [] k = 11 -> Assign(data, "resources", "stylesheets", PyInt(doc.stylesheets))
      [] k = 12 -> Assign(data, "resources", "scripts", PyInt(doc.scripts))
      [] k = 13 -> Assign(data, "security", "hsts",
                          PyBool("strict-transport-security" \in doc.headers))
      [] k = 14 -> Assign(data, "security", "content_security_policy",
                          PyBool("content-security-policy" \in doc.headers))
      [] OTHER -> Assign(data, "security", "x_frame_options",
                         PyBool("x-frame-options" \in doc.headers))

\* statements k..upto of the try block
RECURSIVE ExtractRange(_, _, _, _)
ExtractRange(k, upto, data, doc) ==
    IF k > upto THEN data
    ELSE ExtractRange(k + 1, upto, ExtractStep(k, data, doc), doc)

\* The inner try block when its statement failAt raises (0: none does): the
\* statements before it have run, the rest are skipped.
Extracted(data, doc, failAt) ==
    IF failAt = 0 THEN ExtractRange(1, ExtractSteps, data, doc)
    ELSE ExtractRange(1, failAt - 1, data, doc)

\* the statements that parse the page or walk the parsed tree, which are
\* the ones that can raise
FailPoints == 0..12

(***************************************************************************)
(* scan_website and index, step by step.                                   *)
(***************************************************************************)
\* lines 188-196: a numeric check of four keys of the fresh record
RequiredKeysTable ==
    << <<"performance", "page_size_kb", PyFloat(0, 1)>>,
       <<"performance", "requests", PyInt(0)>>,
       <<"performance", "dom_depth", PyInt(0)>>,
       <<"basic", "load_time", PyFloat(0, 1)>> >>
RECURSIVE RequiredKeysFrom(_, _)
RequiredKeysFrom(data, i) ==
    IF i > Len(RequiredKeysTable) THEN data
    ELSE LET row == RequiredKeysTable[i]
             d1  == SetDefault(data, row[1], Dict(EmptyMap))
         IN  IF ~IsNumber(Get(d1[row[1]].m, row[2], PyNone))
             THEN RequiredKeysFrom(Assign(d1, row[1], row[2], row[3]), i + 1)
             ELSE RequiredKeysFrom(d1, i + 1)

\* lines 271-275: the final check of page_size_kb
FinalValidation(data) ==
    LET d1 == SetDefault(data, "performance", Dict(EmptyMap))
    IN  IF ~IsNumber(Get(d1["performance"].m, "page_size_kb", PyFloat(0, 1)))
        THEN Assign(d1, "performance", "page_size_kb", PyFloat(0, 1))
        ELSE d1

\* lines 279-283: the outer handler's result
ErrorReturn(data, iss, message) ==
    [status |-> "error", message |-> message,
     data |-> Assign(data, "performance", "page_size_kb", PyFloat(0, 1)),
     issues |-> Append(iss, Issue("Scan error: ", message))]

\* the final check rebuilding the record, its issues list included
SuccessReturnFreshRecord(data, iss) ==
    [status |-> "success", message |-> NoMessage, data |-> FinalValidation(data),
     issues |-> <<>>]

\* lines 270-277: the result returned after the final check; issues is the
\* list held by the record
SuccessReturn(data, iss) ==
    [status |-> "success", message |-> NoMessage, data |-> FinalValidation(data),
     issues |-> iss]

\* the URLs submitted to index or handed to scan_website
PipelineUrls ==
    {<<>>, <<" ">>, NotAUrlInput, ExampleComInput,
     HttpPrefix \o ExampleComInput \o <<"/", "?", "a", "&", "b">>,
     <<" ">> \o HttpsPrefix \o <<"a", ".", "b", "c">>}

\* the handler is entered through index (a form post), or scan_website is
\* called on its own
Init ==
    /\ pc \in {"index", "scan_website"}
    /\ url \in PipelineUrls
    /\ vurl = NoValidation /\ surl = NoValidation /\ resp = NoResponse
    /\ results = EmptyMap /\ issues = <<>> /\ ret = NoReturn /\ fetches = 0
    /\ soup = NoDocument
    /\ arg = NonDict /\ once = NoResult /\ twice = NoResult
    /\ scores = NoScoring /\ page = "none"

\* index, lines 751-756: strip, the empty check and validate_url
IndexValidate ==
    /\ pc = "index"
    /\ LET stripped == Strip(url)
           v == validate_url(stripped)
       IN  IF stripped = <<>> \/ ~v.ok
           THEN /\ page' = "error" /\ pc' = "done" /\ vurl' = vurl
           ELSE /\ page' = page /\ pc' = "scan_website" /\ vurl' = v
    /\ UNCHANGED <<url, surl, resp, results, issues, ret, fetches, soup, arg, once,
                   twice, scores>>

\* the argument scan_website is called with
ScanArgument == IF vurl.ok THEN vurl.url ELSE url

\* scan_website, lines 186-203: the fresh record and validate_url
ScanStart ==
    /\ pc = "scan_website"
    /\ LET fresh == RequiredKeysFrom(initialize_results, 1)
           v     == validate_url(ScanArgument)
       IN  /\ surl' = v
           /\ IF v.ok
              THEN /\ results' = fresh /\ issues' = <<>> /\ ret' = ret
                   /\ pc' = "fetch"
              ELSE /\ ret' = ErrorReturn(fresh, <<>>, v.err)
                   /\ results' = ret'.data /\ issues' = ret'.issues
                   /\ pc' = "returned"
    /\ UNCHANGED <<url, vurl, resp, fetches, soup, arg, once, twice, scores, page>>

\* scan_website, lines 205-218, 264-268 and 279-283: the request, load_time
\* once the response is there, and the handlers of a failed request
Fetch ==
    /\ pc = "fetch"
    /\ \E o \in FetchOutcomes(surl.url) :
         LET e == FetchException(o)
         IN  /\ resp' = o
             /\ IF e = "none"
                THEN /\ results' = CaptureLoadTime(results, o)
                     /\ issues' = issues /\ ret' = ret /\ pc' = "read_body"
                ELSE IF IsRequestException(e)
                THEN /\ results' = OnRequestFailure(results, o.elapsed)
                     /\ issues' = Append(issues, Issue("Request failed: ",
                                                       Message(o.error, <<>>)))
                     /\ ret' = ret /\ pc' = "finish"
                ELSE /\ ret' = ErrorReturn(results, issues, Message(o.error, <<>>))
                     /\ results' = ret'.data /\ issues' = ret'.issues
                     /\ pc' = "returned"
    /\ fetches' = fetches + 1
    /\ UNCHANGED <<url, vurl, surl, soup, arg, once, twice, scores, page>>

\* scan_website, lines 219-221, 264-268 and 279-283: the read of the body,
\* the metrics taken from it, and the handlers of a failed read
ReadBody ==
    /\ pc = "read_body"
    /\ LET e == BodyException(resp)
       IN  IF e = "none"
           THEN /\ results' = CaptureBody(results, resp)
                /\ issues' = issues /\ ret' = ret /\ pc' = "extract"
           ELSE IF IsRequestException(e)
           THEN /\ results' = OnRequestFailure(results, resp.later)
                /\ issues' = Append(issues, Issue("Request failed: ",
                                                  Message(resp.error, <<>>)))
                /\ ret' = ret /\ pc' = "finish"
           ELSE /\ ret' = ErrorReturn(results, issues, Message(resp.error, <<>>))
                /\ results' = ret'.data /\ issues' = ret'.issues
                /\ pc' = "returned"
    /\ UNCHANGED <<url, vurl, surl, resp, fetches, soup, arg, once, twice, scores,
                   page>>

\* scan_website, lines 223-262: the inner try block and its handler
Extract ==
    /\ pc = "extract"
    /\ \E doc \in Documents, failAt \in FailPoints :
         /\ results' = Extracted(results, doc, failAt)
         /\ soup' = [doc |-> doc, failAt |-> failAt]
         /\ issues' = IF failAt = 0 THEN issues
                      ELSE Append(issues, Issue("HTML parsing error: ",
                                                Message(ParseError, <<>>)))
    /\ pc' = "finish"
    /\ UNCHANGED <<url, vurl, surl, resp, ret, fetches, arg, once, twice, scores,
                   page>>

\* scan_website, lines 270-277: the final check and the success result
Finish ==
    /\ pc = "finish"
    /\ ret' = SuccessReturn(results, issues)
    /\ results' = ret'.data /\ issues' = ret'.issues
    /\ pc' = "returned"
    /\ UNCHANGED <<url, vurl, surl, resp, fetches, soup, arg, once, twice,
                   scores, page>>

\* index, lines 760-770: ensure_defaults on scan_results['data'], whatever
\* the status, and the page_size_kb check
IndexSanitize ==
    /\ pc = "returned"
    /\ vurl.ok
    /\ LET r  == ensure_defaults(Dict(ret.data))
           d2 == IF "page_size_kb" \notin DOMAIN r.data["performance"].m
                 THEN Assign(r.data, "performance", "page_size_kb", PyFloat(0, 1))
                 ELSE r.data
       IN  IF r.raised
           THEN /\ results' = r.data /\ page' = "error" /\ pc' = "done"
           ELSE /\ results' = d2 /\ page' = page /\ pc' = "score"
    /\ UNCHANGED <<url, vurl, surl, resp, issues, ret, fetches, soup, arg, once, twice,
                   scores>>

\* index, line 772: auto_score_website(scan_data)
IndexScore ==
    /\ pc = "score"
    /\ scores' = auto_score_website(Dict(results), NoText)
    /\ results' = scores'.data
    /\ IF scores'.raised THEN page' = "error" /\ pc' = "done"
       ELSE page' = page /\ pc' = "report"
    /\ UNCHANGED <<url, vurl, surl, resp, issues, ret, fetches, soup, arg, once, twice>>

\* index, lines 773-795: create_results_dataframe and the page rendered
IndexReport ==
    /\ pc = "report"
    /\ once' = create_results_dataframe(scores.scores)
    /\ page' = IF once'.raised THEN "error" ELSE "results"
    /\ pc' = "done"
    /\ UNCHANGED <<url, vurl, surl, resp, results, issues, ret, fetches, soup, arg,
                   twice, scores>>

Next ==
    \/ IndexValidate
    \/ ScanStart
    \/ Fetch
    \/ ReadBody
    \/ Extract
    \/ Finish
    \/ IndexSanitize
    \/ IndexScore
    \/ IndexReport

Spec == Init /\ [][Next]_vars

(***************************************************************************)
(* Properties of the scorer (SpecScore).                                   *)
(***************************************************************************)
Scored == pc \in {"scored", "reported"}

\* C1: auto_score_website returns for every input record, malformed ones
\* included, and every score it returns is an integer from 1 to 5.
C1_ScorerTotalAndRangeBound ==
    Scored => /\ ~scores.raised
              /\ \A c \in DOMAIN scores.scores : scores.scores[c] \in 1..5

\* C2: every category the scorer puts in the ScoreSet is a key of CATEGORIES,
\* and create_results_dataframe gives each the catalog's entry score-1.
C2_ScoredCategoriesInCatalog ==
    /\ Scored /\ ~scores.raised => DOMAIN scores.scores \subseteq CATEGORIES
    /\ pc = "reported" =>
         /\ ~once.raised
         /\ \A c \in DOMAIN scores.scores : once.rows[c] = scores.scores[c] - 1

\* the record the rubric is applied to, after the scorer's own defaults
Scoree(section) == scores.data[section].m
Ind(b) == IF b THEN 1 ELSE 0
\* floor(x / 2) for a small integer x
FloorHalf(x) == CHOOSE q \in -10..10 : 2 * q <= x /\ x < 2 * q + 2
Clamp(x, lo, hi) == IF x < lo THEN lo ELSE IF x > hi THEN hi ELSE x
AtMost5(x) == IF x > 5 THEN 5 ELSE x

\* the accumulator of the Performance & Speed rubric, bracket by bracket
RubricLoadTime(v) == Ind(Lt(v, 15, 10)) + Ind(Lt(v, 3, 1)) + Ind(Lt(v, 5, 1))
                     + Ind(Lt(v, 8, 1))
RubricPageSize(v) == Ind(Lt(v, 300, 1)) + Ind(Lt(v, 800, 1))
RubricRequests(v) == Ind(Lt(v, 15, 1)) + Ind(Lt(v, 30, 1))
RubricDomDepth(v) == Ind(Lt(v, 15, 1)) - Ind(Gt(v, 30, 1))

\* C8: the Performance & Speed score is clamp(floor(total/2), 1, 5) for the
\* accumulated total of the four brackets; the thresholds are strict, so
\* load_time = 1.5 adds 3 and page_size_kb = 300 adds 1.
C8_PerformanceRubric ==
    Scored /\ ~scores.raised =>
      LET lt == Scoree("basic")["load_time"]
          ps == Scoree("performance")["page_size_kb"]
          rq == Scoree("performance")["requests"]
          dd == Scoree("performance")["dom_depth"]
          total == RubricLoadTime(lt) + RubricPageSize(ps) + RubricRequests(rq)
                   + RubricDomDepth(dd)
      IN  /\ scores.scores["Performance & Speed"] = Clamp(FloorHalf(total), 1, 5)
          /\ lt.n * 2 = 3 * lt.d => LoadTimePoints(lt) = 3
          /\ ps.n = 300 * ps.d => PageSizePoints(ps) = 1

\* a record with load_time exactly 1.5 and page_size_kb exactly 300 was scored
C8_Witness ==
    /\ pc = "scored" /\ ~scores.raised
    /\ Scoree("basic")["load_time"] = PyFloat(15, 10)
    /\ Scoree("performance")["page_size_kb"] = PyFloat(3000, 10)
    /\ Scoree("performance")["dom_depth"] = PyInt(31)

SecFlag(key) == Ind(key \in DOMAIN Scoree("security")
                    /\ Truthy(Scoree("security")[key]))

\* C9: the Security & Compliance score is
\* min(5, 1 + 3*https + hsts + content_security_policy + x_frame_options);
\* all four flags give 5 and no record without https scores above 4.
C9_SecurityRubric ==
    Scored /\ ~scores.raised =>
      LET sum == 1 + 3 * SecFlag("https") + SecFlag("hsts")
                 + SecFlag("content_security_policy") + SecFlag("x_frame_options")
          got == scores.scores["Security & Compliance"]
      IN  /\ got = AtMost5(sum)
          /\ sum = 7 => got = 5
          /\ SecFlag("https") = 0 => got <= 4

\* a record with all four flags set has been scored, and got the capped 5
C9_Witness ==
    /\ pc = "scored" /\ ~scores.raised
    /\ SecFlag("https") = 1 /\ SecFlag("hsts") = 1
    /\ SecFlag("content_security_policy") = 1 /\ SecFlag("x_frame_options") = 1
    /\ scores.scores["Security & Compliance"] = 5

MetaField(key, dflt) == IF key \in DOMAIN Scoree("meta") THEN Scoree("meta")[key]
                        ELSE dflt
\* the length of a title or description; 0 for a value that is empty
LengthOf(v) == IF Truthy(v) THEN PyLen(v) ELSE 0

\* C10: the SEO & Visibility score is min(5, 1 + 2*[30 <= title length <= 60]
\* + 2*[50 <= description length <= 160] + [viewport] + [canonical non-empty]
\* + [og_tags non-empty]); an empty title, a description of 100 characters,
\* a viewport, no canonical and no og_tags give 4.
C10_SEORubric ==
    Scored /\ ~scores.raised =>
      LET tl  == LengthOf(MetaField("title", PyStr(<<>>)))
          dl  == LengthOf(MetaField("description", PyStr(<<>>)))
          vp  == Truthy(MetaField("viewport", PyBool(FALSE)))
          cn  == Truthy(MetaField("canonical", PyStr(<<>>)))
          og  == Truthy(MetaField("og_tags", PyDict(0)))
          sum == 1 + 2 * Ind(tl \in 30..60) + 2 * Ind(dl \in 50..160)
                 + Ind(vp) + Ind(cn) + Ind(og)
          got == scores.scores["SEO & Visibility"]
      IN  /\ got = AtMost5(sum)
          /\ (tl = 0 /\ dl = 100 /\ vp /\ ~cn /\ ~og) => got = 4

\* the scenario of the claim was scored
C10_Witness ==
    /\ pc = "scored" /\ ~scores.raised
    /\ MetaField("title", PyNone) = PyStr(<<>>)
    /\ MetaField("description", PyNone) = PyStr(Chars(100))
    /\ MetaField("viewport", PyNone) = PyBool(TRUE)
    /\ MetaField("canonical", PyNone) = PyStr(<<>>)
    /\ MetaField("og_tags", PyNone) = PyDict(0)
    /\ scores.scores["SEO & Visibility"] = 4

ResourceField(key, dflt) ==
    IF key \in DOMAIN Scoree("resources") THEN Scoree("resources")[key] ELSE dflt

\* C11: the Mobile Responsiveness score is
\* min(5, 1 + 3*[viewport present] + [stylesheet count > 0]); viewport false
\* and stylesheets 0 give 1, and no record without a viewport scores above 2.
C11_MobileRubric ==
    Scored /\ ~scores.raised =>
      LET vp  == Truthy(MetaField("viewport", PyBool(FALSE)))
          ss  == ResourceField("stylesheets", PyInt(0))
          sum == 1 + 3 * Ind(vp) + Ind(Gt(ss, 0, 1))
          got == scores.scores["Mobile Responsiveness"]
      IN  /\ got = AtMost5(sum)
          /\ (~vp /\ ss = PyInt(0)) => got = 1
          /\ ~vp => got <= 2

\* the scenario of the claim was scored: no viewport, no stylesheets
C11_Witness ==
    /\ pc = "scored" /\ ~scores.raised
    /\ MetaField("viewport", PyNone) = PyBool(FALSE)
    /\ ResourceField("stylesheets", PyNone) = PyInt(0)
    /\ scores.scores["Mobile Responsiveness"] = 1

\* the record lacks the field: its section is absent, or holds no such key
Missing(data, sec, key) ==
    \/ sec \notin DOMAIN data
    \/ data[sec].isdict /\ key \notin DOMAIN data[sec].m

\* the record with load_time and page_size_kb, where missing, given as lt, ps
Filled(data, lt, ps) ==
    LET d0 == [sec \in (DOMAIN data) \cup {"basic", "performance"} |->
                 IF sec \in DOMAIN data THEN data[sec] ELSE Dict(EmptyMap)]
        d1 == IF Missing(data, "basic", "load_time")
              THEN Assign(d0, "basic", "load_time", lt) ELSE d0
    IN  IF Missing(data, "performance", "page_size_kb")
        THEN Assign(d1, "performance", "page_size_kb", ps) ELSE d1

MissingPerformanceInput ==
    /\ arg.data.isdict
    /\ \/ Missing(arg.data.m, "basic", "load_time")
       \/ Missing(arg.data.m, "performance", "page_size_kb")

\* C12: a record without load_time or page_size_kb is scored as the same
\* record with load_time 8.0 and page_size_kb 1000.0 in their place: the
\* scorer writes these values into the record, each adds 0 points, and the
\* Performance & Speed score is the one of the record so filled.
C12_MissingScoredAsBad ==
    pc = "scored" /\ MissingPerformanceInput =>
      LET strict == auto_score_website(
                      Dict(Filled(arg.data.m, PyFloat(8, 1), PyFloat(1000, 1))),
                      arg.text)
      IN  /\ scores.raised = strict.raised
          /\ ~scores.raised =>
               /\ scores.scores["Performance & Speed"]
                    = strict.scores["Performance & Speed"]
               /\ Missing(arg.data.m, "basic", "load_time") =>
                    /\ Scoree("basic")["load_time"] = PyFloat(8, 1)
                    /\ RubricLoadTime(Scoree("basic")["load_time"]) = 0
               /\ Missing(arg.data.m, "performance", "page_size_kb") =>
                    /\ Scoree("performance")["page_size_kb"] = PyFloat(1000, 1)
                    /\ RubricPageSize(Scoree("performance")["page_size_kb"]) = 0

\* a record without load_time was scored, and lower than the same record
\* with load_time 0.0
C12_Witness ==
    /\ pc = "scored" /\ ~scores.raised
    /\ arg.data.isdict
    /\ Missing(arg.data.m, "basic", "load_time")
    /\ ~Missing(arg.data.m, "performance", "page_size_kb")
    /\ LET neutral == auto_score_website(
                        Dict(Filled(arg.data.m, PyFloat(0, 1), PyFloat(0, 1))),
                        arg.text)
       IN  /\ ~neutral.raised
           /\ scores.scores["Performance & Speed"]
                < neutral.scores["Performance & Speed"]

\* the accumulated total of the Performance & Speed rubric for the scored record
RubricTotal ==
    RubricLoadTime(Scoree("basic")["load_time"])
    + RubricPageSize(Scoree("performance")["page_size_kb"])
    + RubricRequests(Scoree("performance")["requests"])
    + RubricDomDepth(Scoree("performance")["dom_depth"])

\* C16: the Performance & Speed score is never 5: the total is at most
\* 4+2+2+1 = 9, whose half is 4, so the score lies in 1..4 and the last of
\* the catalog's recommendations for the category is never selected.
C16_PerformanceNeverFive ==
    Scored /\ ~scores.raised =>
      /\ RubricTotal <= 9
      /\ scores.scores["Performance & Speed"] \in 1..4
      /\ scores.scores["Performance & Speed"] - 1 < RecommendationCount - 1

\* a record with the highest total, 9, was scored 4
C16_Witness ==
    /\ pc = "scored" /\ ~scores.raised
    /\ RubricTotal = 9
    /\ scores.scores["Performance & Speed"] = 4

(***************************************************************************)
(* Properties of the sanitizer (SpecSanitize).                             *)
(***************************************************************************)
\* C4: ensure_defaults is idempotent: applied to its own result it returns
\* that result unchanged, for every record for which it returns.
C4_SanitizerIdempotent ==
    pc = "resanitized" => ~twice.raised /\ twice.data = once.data

\* a malformed record that the first application changed was sanitized twice
C4_Witness ==
    /\ pc = "resanitized"
    /\ once.data # arg.m
    /\ \E sec \in DOMAIN once.data : sec \notin DOMAIN arg.m

(***************************************************************************)
(* Properties of the validator (SpecValidate).                             *)
(***************************************************************************)
\* the input trimmed and given the https:// default
ClaimedUrl(raw) ==
    LET trimmed == Strip(raw)
    IN  IF StartsWith(trimmed, HttpPrefix) \/ StartsWith(trimmed, HttpsPrefix)
        THEN trimmed ELSE HttpsPrefix \o trimmed
\* the host (authority) of an http:// or https:// URL
ClaimedHost(u) ==
    LET after == IF StartsWith(u, HttpsPrefix) THEN SubSeq(u, 9, Len(u))
                 ELSE SubSeq(u, 8, Len(u))
        stop  == FirstIndex(after, {"/", "?", "#"})
    IN  IF stop = 0 THEN after ELSE SubSeq(after, 1, stop - 1)
ClaimedFailure(raw) ==
    LET host == ClaimedHost(ClaimedUrl(raw))
    IN  \/ Strip(raw) = <<>>
        \/ host = <<>>
        \/ "." \notin {host[i] : i \in 1..Len(host)}
        \/ Len(host) < 4

ExampleCom == ExampleComInput
NotAUrl    == NotAUrlInput
ClaimedExamples ==
    /\ url = ExampleCom => once.ok /\ StartsWith(once.url, HttpsPrefix)
    /\ url \in {<<>>, NotAUrl} => ~once.ok

\* C7 as stated: validate_url fails exactly in the listed cases and otherwise
\* returns the trimmed, possibly prefixed URL itself.
C7_ValidateReturnsUrl ==
    pc = "validated" =>
      /\ once.ok = ~ClaimedFailure(url)
      /\ once.ok => once.url = ClaimedUrl(url)
      /\ ClaimedExamples

\* C17: validate_url is idempotent on its own output: applied to a URL it
\* returned, it succeeds and returns that URL unchanged.
C17_ValidateIdempotent ==
    pc = "revalidated" => twice.ok /\ twice.url = once.url

(***************************************************************************)
(* Properties of the pipeline (Spec).                                      *)
(***************************************************************************)
\* the ScanRecord data model: section, field, declared type
RecordSchema ==
    {<<"basic", "load_time", "float">>, <<"basic", "scan_timestamp", "str">>,
     <<"meta", "title", "str">>, <<"meta", "title_length", "int">>,
     <<"meta", "description", "str">>, <<"meta", "viewport", "bool">>,
     <<"meta", "has_favicon", "bool">>, <<"meta", "canonical", "str">>,
     <<"meta", "og_tags", "dict">>,
     <<"resources", "images", "int">>, <<"resources", "stylesheets", "int">>,
     <<"resources", "scripts", "int">>,
     <<"performance", "page_size_kb", "float">>, <<"performance", "requests", "int">>,
     <<"performance", "dom_elements", "int">>, <<"performance", "dom_depth", "int">>,
     <<"security", "https", "bool">>, <<"security", "hsts", "bool">>,
     <<"security", "content_security_policy", "bool">>,
     <<"security", "x_frame_options", "bool">>,
     <<"accessibility", "alt_text_images", "int">>,
     <<"accessibility", "lang_attribute", "bool">>,
     <<"accessibility", "aria_attributes", "int">>}

FullyTyped(data) ==
    \A f \in RecordSchema :
      /\ f[1] \in DOMAIN data
      /\ data[f[1]].isdict
      /\ f[2] \in DOMAIN data[f[1]].m
      /\ data[f[1]].m[f[2]].ty = f[3]
      /\ f[3] \in {"int", "float"} => data[f[1]].m[f[2]].n >= 0

\* C3: in scan -> ensure_defaults -> score, the record handed to the scorer
\* has every field of the ScanRecord data model, with its declared type.
C3_ScorerInputFullyTyped ==
    pc = "score" =>
      /\ FullyTyped(results)
      /\ \A i \in 1..Len(issues) :
           issues[i] \in [prefix : STRING, text : STRING, arg : Seq(STRING)]

\* a record extracted from a page whose tags lack their attributes, with the
\* extraction cut short, is about to be scored
C3_Witness ==
    /\ pc = "score"
    /\ results["meta"].m["viewport"] = PyBool(TRUE)
    /\ results["meta"].m["canonical"] = PyStr(<<>>)
    /\ results["meta"].m["title"] = PyStr(<<>>)
    /\ \E i \in 1..Len(issues) : issues[i].prefix = "HTML parsing error: "

Returned == ret.status # "none"
\* the kinds of the entries of r.issues: what each entry starts with
IssuesOf(r) == {r.issues[i].prefix : i \in 1..Len(r.issues)}

\* what the claim promises of a scan whose fetch failed
DegradedGracefully ==
    /\ ret.status = "success"
    /\ ret.data["performance"].m["page_size_kb"] = PyFloat(0, 1)
    /\ ret.data["basic"].m["load_time"] = resp.elapsed
    /\ "Request failed: " \in IssuesOf(ret)

\* C5 as stated: a fetch that ends in a timeout, a connection error, a final
\* status outside 2xx or more redirects than allowed gives status success,
\* page_size_kb 0.0, load_time the elapsed time and an issue naming it.
C5_AnyNon2xxDegrades ==
    (/\ Returned /\ fetches = 1
     /\ \/ resp.conn \in {"timeout", "refused"}
        \/ resp.conn = "ok" /\ resp.redirects > MAX_REDIRECTS
        \/ resp.conn = "ok" /\ resp.status \notin 200..299)
    => DegradedGracefully

\* C5 amended: the same for a fetch that ends in a timeout, a connection
\* error, a 4xx or 5xx final status or more redirects than allowed.
C5_RequestErrorDegrades ==
    (/\ Returned /\ fetches = 1
     /\ \/ resp.conn \in {"timeout", "refused"}
        \/ resp.conn = "ok" /\ resp.redirects > MAX_REDIRECTS
        \/ resp.conn = "ok" /\ resp.status \in 400..599)
    => DegradedGracefully

\* a scan whose request timed out has returned
C5_Witness ==
    /\ Returned /\ fetches = 1
    /\ resp.conn = "timeout"
    /\ ret.status = "success"
    /\ ret.data["basic"].m["load_time"] = PyFloat(REQUEST_TIMEOUT, 1)
    /\ ret.issues = <<Issue("Request failed: ", Message("Read timed out.", <<>>))>>

\* C6: scan_website returns status error only when validate_url failed or
\* something other than a request or extraction failure was raised; a failed
\* validation means no request was made; an error result carries the message
\* of the failure, str(e), and the record built so far.
C6_ErrorOnlyForValidationOrUnexpected ==
    /\ ret.status = "error" =>
         /\ ~surl.ok \/ (fetches = 1 /\ resp.conn \in {"other", "other_body"})
         /\ ~surl.ok => /\ fetches = 0 /\ resp = NoResponse
                        /\ ret.message = surl.err /\ surl.err # NoMessage
         /\ surl.ok => ret.message = Message(resp.error, <<>>)
         /\ DOMAIN ret.data = SectionNames
         /\ \A sec \in SectionNames : ret.data[sec].isdict
         /\ ret.issues = <<Issue("Scan error: ", ret.message)>>
    /\ Returned /\ IssuesOf(ret) \cap {"Request failed: ", "HTML parsing error: "} # {}
         => ret.status = "success"

\* scan_website was handed a string that is no URL and has returned
C6_Witness ==
    /\ ret.status = "error"
    /\ ~surl.ok /\ url = NotAUrlInput
    /\ fetches = 0
    /\ ret.message = Message("Invalid URL: Invalid domain format", <<>>)

\* the fields of the record that the k-th statement of the try block writes
WrittenBy(k) ==
    {f \in RecordSchema :
       \E doc \in Documents :
         ExtractStep(k, initialize_results, doc)[f[1]].m[f[2]]
           # initialize_results[f[1]].m[f[2]]}

\* the record as the fetch left it, and as a full extraction would leave it
BeforeExtraction ==
    CaptureBody(CaptureLoadTime(RequiredKeysFrom(initialize_results, 1), resp), resp)
FullyExtracted   == Extracted(BeforeExtraction, soup.doc, 0)

\* C13: when the extraction of one signal fails, the failure is logged to
\* issues and every other signal, those extracted later included, has the
\* value it has when nothing fails.
C13_ExtractionIsolatedPerField ==
    pc = "finish" /\ soup.failAt >= 2 =>
      /\ \E i \in 1..Len(issues) : issues[i].prefix = "HTML parsing error: "
      /\ \A f \in RecordSchema \ WrittenBy(soup.failAt) :
           results[f[1]].m[f[2]] = FullyExtracted[f[1]].m[f[2]]

\* the fetch gave a response and neither the request, raise_for_status nor
\* the read of the body raised
FetchSucceeded ==
    fetches = 1 /\ FetchException(resp) = "none" /\ BodyException(resp) = "none"
SchemeOf(u) == urlparse(u).scheme
HttpsScheme == <<"h", "t", "t", "p", "s">>

\* C14: after a successful fetch security.https is true exactly when the
\* scheme of the final URL is https, whatever the scheme of the requested
\* URL: https redirected to http gives false, http redirected to https true.
C14_HttpsFromFinalUrl ==
    pc \in {"extract", "finish", "returned"} /\ FetchSucceeded =>
      LET https == results["security"].m["https"]
      IN  /\ https = PyBool(SchemeOf(resp.final) = HttpsScheme)
          /\ (SchemeOf(surl.url) = HttpsScheme /\ SchemeOf(resp.final) # HttpsScheme)
               => https = PyBool(FALSE)
          /\ (SchemeOf(surl.url) # HttpsScheme /\ SchemeOf(resp.final) = HttpsScheme)
               => https = PyBool(TRUE)

\* a scan of an https URL that was redirected to an http URL has returned
C14_Witness ==
    /\ pc = "returned" /\ FetchSucceeded /\ ret.status = "success"
    /\ resp.redirects = 1
    /\ SchemeOf(surl.url) = HttpsScheme
    /\ SchemeOf(resp.final) = <<"h", "t", "t", "p">>
    /\ ret.data["security"].m["https"] = PyBool(FALSE)

IsPrefix(s, t) == Len(s) <= Len(t) /\ SubSeq(t, 1, Len(s)) = s

\* C15: issues is empty at first and append-only: every step leaves it as
\* it is or adds entries at its end, so it is at each point a prefix of what
\* it is at any later point.
C15_IssuesAppendOnly ==
    /\ issues = <<>>
    /\ [][IsPrefix(issues, issues')]_vars

\* a scan that logged an extraction failure has returned it in its record
C15_Witness ==
    /\ pc = "returned" /\ ret.status = "success"
    /\ issues = <<Issue("HTML parsing error: ", Message(ParseError, <<>>))>>
    /\ ret.issues = issues

====
